---- MODULE Spec2Model ----
(***************************************************************************)
(* Model of the tender ingestion core:                                     *)
(*   - TenderScraper (backend/app/services/scraper.py): the asyncio run()  *)
(*     orchestrator, its per-locator download tasks, the semaphore gate,   *)
(*     the cooperative stop flag and the shared ScraperProgress;           *)
(*   - the classify-then-extract pipeline process_tender_zip               *)
(*     (backend/app/services/extractor.py);                                *)
(*   - the functions classify_document, _is_pdf_scanned,                   *)
(*     extract_full_document and DownloadedTender.get_files, called        *)
(*     directly on chosen inputs;                                          *)
(*   - the scraper endpoints and the background task of                    *)
(*     backend/app/api/routes.py: run_scraper, _run_scraper_task,          *)
(*     get_scraper_status and stop_scraper around the module-level         *)
(*     _scraper_instance.                                                  *)
(*                                                                         *)
(* asyncio is single-threaded and cooperative: code between two awaits     *)
(* runs without interleaving, so every action below is one such segment.   *)
(***************************************************************************)
EXTENDS Integers, Sequences, FiniteSets, TLC

\* ---------------------------------------------------------------- bounds
\* Largest number of tender links one enumeration returns in the model.
MaxLinks == 3
\* Largest number of entries of an archive given to process_tender_zip.
MaxEntries == 3
\* settings.SCRAPER_MAX_CONCURRENT: the semaphore's initial value
\* (configuration from app.core.config, which is not part of the sources).
MaxConcurrent == 2
\* Largest number of jobs run_scraper creates in the model.
MaxJobs == 2
\* Largest number of retrievals that resolve in one run started by the API.
MaxRetrievals == 1

VARIABLES
    runPc,          \* where run() is: idle, launching, collecting, gathering,
                    \* closing_browser, returned, raised
    afterClose,     \* what run() does once the finally's browser.close() is over
    stop_requested, \* TenderScraper._stop_requested
    progress,       \* TenderScraper.progress (ScraperProgress)
    browserOpen,    \* the browser launched by run() is held: neither
                    \* browser.close() nor the exit of async_playwright()
                    \* has released it
    semaphore,      \* value of the asyncio.Semaphore created by run()
    tasks,          \* the download_single_tender coroutines given to gather
    results,        \* the list run() returns
    raisedBy,       \* what made run() raise ("" when it has not)
    stopAt,         \* history: whether stop() was called during the download
                    \* phase of this run, and the retrievals that had then
                    \* started (passed the stop check)
    runEntry        \* history: the stop flag and the counters run() found
                    \* when it was entered, kept until the browser is launched

scraperVars == <<runPc, afterClose, stop_requested, progress, browserOpen,
                 semaphore, tasks, results, raisedBy, stopAt, runEntry>>

VARIABLES
    zipPc,           \* where process_tender_zip is: off, scanning, selecting,
                     \* extracting, returned, raised
    zip_files,       \* its argument: the archive's entries in iteration order
    scanIdx,         \* number of entries classify_all_documents has visited
    classifications, \* the list of FirstPageResult built by the scan
    avis_info,       \* index in classifications of the selected Avis (0: None)
    extractCalls,    \* history: indices in zip_files of the entries handed
                     \* to extract_full_document, in call order
    zipReturn        \* what process_tender_zip returned

zipVars == <<zipPc, zip_files, scanIdx, classifications, avis_info,
             extractCalls, zipReturn>>

VARIABLES
    callFn,    \* the function a direct call exercises: "classify_document",
               \* "_is_pdf_scanned", "get_files", "extract_full_document"
               \* ("none": no direct call)
    callArgs,  \* the arguments the function is called with
    callOut,   \* what the last call returned (NoCall before the first call)
    callSeen   \* history: the set of all values the calls have returned

callVars == <<callFn, callArgs, callOut, callSeen>>

VARIABLES
    scraper_instance, \* routes._scraper_instance: 0 for None, else the job
                      \* whose background task created the TenderScraper
    jobs,             \* the ScraperJob rows in creation order, each with the
                      \* state of its background task and of its scraper
    response,         \* what the last endpoint call answered
    tenders           \* the Tender rows the background tasks have committed

apiVars == <<scraper_instance, jobs, response, tenders>>

vars == <<scraperVars, zipVars, callVars, apiVars>>

\* callOut before the first call.
NoCall == [called |-> FALSE]

\* runEntry outside the first segment of run().
NoEntry == [entered |-> FALSE]

\* response before the first endpoint call.
NoResponse ==
    [endpoint |-> "none", ok |-> FALSE, is_running |-> FALSE,
     downloaded |-> 0, failed |-> 0]

\* stopAt before any stop() of the download phase.
NoStop == [called |-> FALSE, started |-> {}]

\* ------------------------------------------------------ ScraperProgress
\* ScraperProgress(): the dataclass defaults.  logs is the number of entries
\* that download_single_tender has appended to progress.logs (the entries of
\* run(), collect_tender_links() and stop() are not counted).
ScraperProgressDefault ==
    [phase |-> "Initializing", total |-> 0, downloaded |-> 0, failed |-> 0,
     logs |-> 0, is_running |-> FALSE]

\* ---------------------------------------------------------------- tasks
\* One download_single_tender coroutine.  page: the coroutine has opened its
\* page and has not yet called tender_page.close() on it.  inc_d, inc_f,
\* logged and notified are history fields: how often this task incremented
\* progress.downloaded and progress.failed, appended a log entry and invoked
\* the observer callback.  seen is what the observer was shown at this task's last call:
\* this task's counter changes and log entries up to then, and by how much
\* downloaded + failed exceeded the number of retrieval entries in logs.
NewTask ==
    [pc |-> "waiting", attempted |-> FALSE, page |-> FALSE,
     pending |-> "none", ret |-> "none", error |-> "",
     inc_d |-> 0, inc_f |-> 0, logged |-> 0, notified |-> 0,
     seen |-> [counted |-> 0, logged |-> 0, unlogged |-> 0]]

\* _update_progress(): on_progress(self.progress) is called with the
\* progress p, by the task whose history fields are task.
Observe(task, p) ==
    [task EXCEPT !.notified = @ + 1,
                 !.seen = [counted |-> task.inc_d + task.inc_f,
                           logged |-> task.logged,
                           unlogged |-> p.downloaded + p.failed - p.logs]]

TaskIds == DOMAIN tasks

\* A retrieval has passed the gate (and the stop check) and is unresolved.
InFlight(t) == tasks[t].pc \in {"new_page", "protocol", "closing"}

Resolved(t) == tasks[t].pc = "done"

\* The DownloadedTender a resolved task handed to gather
\* (ret = "raised": the coroutine raised instead of returning one).
Returned(t) == tasks[t].ret \in {"success", "failure", "stopped"}

\* -------------------------------------------------- download_single_tender
\* The except branch with the observer called before the log entry is
\* appended.
HandleFailureNotifyBeforeLog(task, p, err, obsOk) ==
    LET p1 == [p EXCEPT !.failed = @ + 1]
        p2 == [p1 EXCEPT !.logs = @ + 1]
        t1 == [task EXCEPT !.inc_f = @ + 1]
        t2 == Observe(t1, p1)
        t3 == [t2 EXCEPT !.logged = @ + 1]
    IN  [progress |-> p2,
         task |-> [t3 EXCEPT !.pending = IF obsOk THEN "failure" ELSE "raise",
                             !.error = IF obsOk THEN err ELSE ""]]

\* An except branch: failed += 1, progress.log(...), _update_progress(), then
\* `return DownloadedTender(idx, url, False, err)`.  obsOk: the observer
\* callback returned; otherwise its exception leaves the except branch and
\* the coroutine will raise once the finally clause is over.
HandleFailure(task, p, err, obsOk) ==
    LET p1 == [p EXCEPT !.failed = @ + 1]
        p2 == [p1 EXCEPT !.logs = @ + 1]
        t1 == [task EXCEPT !.inc_f = @ + 1]
        t2 == [t1 EXCEPT !.logged = @ + 1]
        t3 == Observe(t2, p2)
    IN  [progress |-> p2,
         task |-> [t3 EXCEPT !.pending = IF obsOk THEN "failure" ELSE "raise",
                             !.error = IF obsOk THEN err ELSE ""]]

\* The end of the try body: downloaded += 1, progress.log(...),
\* _update_progress(), `return DownloadedTender(success=True, zip_bytes)`.
\* These statements are inside the try: an exception of the observer is
\* caught by `except Exception`, which counts the same retrieval as failed.
HandleSuccess(task, p, obsOk, obsOk2) ==
    LET p1 == [p EXCEPT !.downloaded = @ + 1]
        p2 == [p1 EXCEPT !.logs = @ + 1]
        t1 == [task EXCEPT !.inc_d = @ + 1]
        t2 == [t1 EXCEPT !.logged = @ + 1]
        t3 == Observe(t2, p2)
    IN  IF obsOk
        THEN [progress |-> p2, task |-> [t3 EXCEPT !.pending = "success"]]
        ELSE HandleFailure(t3, p2, "Error", obsOk2)

\* The coroutine ends: the pending return value or exception becomes its
\* outcome (the `async with semaphore` exit releases the gate).
Finish(task) ==
    [task EXCEPT !.pc = "done",
                 !.ret = IF task.pending = "raise" THEN "raised" ELSE task.pending,
                 !.pending = "none"]

\* EnterGate without the semaphore: the coroutine does not wait for a slot.
EnterGateNoSemaphore(t) ==
    /\ runPc = "gathering"
    /\ tasks[t].pc = "waiting"
    /\ IF stop_requested
       THEN /\ tasks' = [tasks EXCEPT ![t] = [@ EXCEPT !.pc = "done",
                                                       !.ret = "stopped",
                                                       !.error = "Stopped by user"]]
            /\ UNCHANGED semaphore
       ELSE /\ tasks' = [tasks EXCEPT ![t] = [@ EXCEPT !.pc = "new_page",
                                                       !.attempted = TRUE]]
            /\ semaphore' = semaphore - 1
    /\ UNCHANGED <<runPc, afterClose, stop_requested, progress, browserOpen,
                   results, raisedBy, stopAt, runEntry>>

\* EnterGate without the stop check: the flag is not read.
EnterGateNoStopCheck(t) ==
    /\ runPc = "gathering"
    /\ tasks[t].pc = "waiting"
    /\ semaphore > 0
    /\ tasks' = [tasks EXCEPT ![t] = [@ EXCEPT !.pc = "new_page",
                                               !.attempted = TRUE]]
    /\ semaphore' = semaphore - 1
    /\ UNCHANGED <<runPc, afterClose, stop_requested, progress, browserOpen,
                   results, raisedBy, stopAt, runEntry>>

\* `async with semaphore:` then the stop check, then the call of
\* context.new_page().  No await separates the three.
EnterGate(t) ==
    /\ runPc = "gathering"
    /\ tasks[t].pc = "waiting"
    /\ semaphore > 0
    /\ IF stop_requested
       THEN /\ tasks' = [tasks EXCEPT ![t] = [@ EXCEPT !.pc = "done",
                                                       !.ret = "stopped",
                                                       !.error = "Stopped by user"]]
            /\ UNCHANGED semaphore
       ELSE /\ tasks' = [tasks EXCEPT ![t] = [@ EXCEPT !.pc = "new_page",
                                                       !.attempted = TRUE]]
            /\ semaphore' = semaphore - 1
    /\ UNCHANGED <<runPc, afterClose, stop_requested, progress, browserOpen,
                   results, raisedBy, stopAt, runEntry>>

\* `tender_page = await context.new_page()` returns or raises.  When it
\* raises, tender_page is None: the except branch runs and the finally clause
\* has nothing to close, so the coroutine ends in the same segment.
NewPageDone(t) ==
    /\ runPc = "gathering"
    /\ tasks[t].pc = "new_page"
    /\ \/ /\ tasks' = [tasks EXCEPT ![t] = [@ EXCEPT !.pc = "protocol",
                                                     !.page = TRUE]]
          /\ UNCHANGED <<progress, semaphore>>
       \/ \E obsOk \in BOOLEAN :
            LET h == HandleFailure(tasks[t], progress, "Error", obsOk)
            IN  /\ tasks' = [tasks EXCEPT ![t] = Finish(h.task)]
                /\ progress' = h.progress
                /\ semaphore' = semaphore + 1
    /\ UNCHANGED <<runPc, afterClose, stop_requested, browserOpen, results,
                   raisedBy, stopAt, runEntry>>

\* The retrieval protocol on the open page (goto, form, expect_download,
\* download.path()) ends: with the archive bytes, with a PlaywrightTimeout
\* (page-level or download timeout) or with another exception.  The counter
\* update, the log entry and the observer call follow without an await; the
\* next await is tender_page.close() in the finally clause.
ProtocolOutcomes == {"downloaded", "page_timeout", "download_timeout", "error"}

ProtocolDone(t) ==
    /\ runPc = "gathering"
    /\ tasks[t].pc = "protocol"
    /\ \E outcome \in ProtocolOutcomes, obsOk \in BOOLEAN, obsOk2 \in BOOLEAN :
         LET h == CASE outcome = "downloaded" ->
                        HandleSuccess(tasks[t], progress, obsOk, obsOk2)
                    [] outcome \in {"page_timeout", "download_timeout"} ->
                        HandleFailure(tasks[t], progress, "Timeout", obsOk)
                    [] OTHER ->
                        HandleFailure(tasks[t], progress, "Error", obsOk)
         IN  /\ tasks' = [tasks EXCEPT ![t] = [h.task EXCEPT !.pc = "closing"]]
             /\ progress' = h.progress
    /\ UNCHANGED <<runPc, afterClose, stop_requested, browserOpen, semaphore,
                   results, raisedBy, stopAt, runEntry>>

\* ClosePageDone with tender_page.close() at the end of the try body instead
\* of the finally clause: the page is closed only after a download.
ClosePageDoneNoFinally(t) ==
    /\ runPc = "gathering"
    /\ tasks[t].pc = "closing"
    /\ \/ tasks' = [tasks EXCEPT ![t] =
                       [Finish(@) EXCEPT !.page = (tasks[t].pending # "success")]]
       \/ tasks' = [tasks EXCEPT ![t] =
                       [Finish([@ EXCEPT !.pending = "raise", !.error = ""])
                          EXCEPT !.page = (tasks[t].pending # "success")]]
    /\ semaphore' = semaphore + 1
    /\ UNCHANGED <<runPc, afterClose, stop_requested, progress, browserOpen,
                   results, raisedBy, stopAt, runEntry>>

\* finally: `await tender_page.close()` has been called on the page and
\* returns or raises.  An exception of close() replaces the pending return
\* value.
ClosePageDone(t) ==
    /\ runPc = "gathering"
    /\ tasks[t].pc = "closing"
    /\ \/ tasks' = [tasks EXCEPT ![t] = [Finish(@) EXCEPT !.page = FALSE]]
       \/ tasks' = [tasks EXCEPT ![t] =
                       [Finish([@ EXCEPT !.pending = "raise", !.error = ""])
                          EXCEPT !.page = FALSE]]
    /\ semaphore' = semaphore + 1
    /\ UNCHANGED <<runPc, afterClose, stop_requested, progress, browserOpen,
                   results, raisedBy, stopAt, runEntry>>

\* ------------------------------------------------------------------ stop
\* stop(): sets the flag (and appends a log entry).  It is a plain method, so
\* it runs between two segments of the coroutines, at any time.
Stop ==
    /\ ~stop_requested
    /\ stop_requested' = TRUE
    /\ stopAt' = IF runPc = "gathering"
                 THEN [called |-> TRUE,
                       started |-> {t \in TaskIds : tasks[t].attempted}]
                 ELSE stopAt
    /\ UNCHANGED <<runPc, afterClose, progress, browserOpen, semaphore, tasks,
                   results, raisedBy, runEntry>>

\* ------------------------------------------------------------------- run
\* RunStart without `self._stop_requested = False`: a stop requested before
\* the run stays set.
RunStartKeepsStop ==
    /\ runPc \in {"idle", "returned", "raised"}
    /\ runPc' = "launching"
    /\ progress' = [ScraperProgressDefault EXCEPT !.is_running = TRUE]
    /\ results' = <<>>
    /\ tasks' = <<>>
    /\ raisedBy' = ""
    /\ stopAt' = NoStop
    /\ runEntry' = [entered |-> TRUE, stop_requested |-> stop_requested,
                    downloaded |-> progress.downloaded,
                    failed |-> progress.failed, logs |-> progress.logs]
    /\ afterClose' = "none"
    /\ UNCHANGED <<stop_requested, browserOpen, semaphore>>

\* run() is entered: the stop flag is cleared and progress is replaced by
\* ScraperProgress(is_running=True).  The same scraper can be run again once
\* an earlier run() has returned or raised.
RunStart ==
    /\ runPc \in {"idle", "returned", "raised"}
    /\ runPc' = "launching"
    /\ stop_requested' = FALSE
    /\ progress' = [ScraperProgressDefault EXCEPT !.is_running = TRUE]
    /\ results' = <<>>
    /\ tasks' = <<>>
    /\ raisedBy' = ""
    /\ stopAt' = NoStop
    /\ runEntry' = [entered |-> TRUE, stop_requested |-> stop_requested,
                    downloaded |-> progress.downloaded,
                    failed |-> progress.failed, logs |-> progress.logs]
    /\ afterClose' = "none"
    /\ UNCHANGED <<browserOpen, semaphore>>

\* `async with async_playwright()`, phase = "Launching browser", the observer
\* call, chromium.launch() and browser.new_context().  All of it is outside
\* the try/finally: a failure raises out of run() at once; after a failure
\* of new_context() browser.close() is not called and the launched browser is
\* released by the exit of `async with async_playwright()`, which stops the
\* driver the browser belongs to.
LaunchOutcomes == {"ok", "playwright_error", "launch_error", "context_error"}

Launch ==
    /\ runPc = "launching"
    /\ \E outcome \in LaunchOutcomes :
         /\ progress' = IF outcome = "playwright_error"
                        THEN progress
                        ELSE [progress EXCEPT !.phase = "Launching browser"]
         /\ browserOpen' = (outcome = "ok")
         /\ runPc' = IF outcome = "ok" THEN "collecting" ELSE "raised"
         /\ raisedBy' = IF outcome = "ok" THEN "" ELSE "launch"
    /\ runEntry' = NoEntry
    /\ UNCHANGED <<afterClose, stop_requested, semaphore, tasks, results, stopAt>>

\* The list gather(*tasks, return_exceptions=True) yields, filtered by
\* isinstance(r, DownloadedTender): one record per coroutine that returned,
\* in task order; the coroutines that raised are left out.
RECURSIVE Filtered(_, _)
Filtered(ts, i) ==
    IF i > Len(ts) THEN <<>>
    ELSE LET rest == Filtered(ts, i + 1)
         IN  IF ts[i].ret \in {"success", "failure", "stopped"}
             THEN <<[index |-> i,
                     success |-> (ts[i].ret = "success"),
                     error |-> ts[i].error,
                     zip_bytes |-> (ts[i].ret = "success")]>> \o rest
             ELSE rest

\* gather without return_exceptions=True: a coroutine's exception is raised
\* out of gather, into run().
GatherRaisesTaskException(ts) == \E i \in DOMAIN ts : ts[i].ret = "raised"

\* asyncio.gather(*tasks, return_exceptions=True): an exception of a
\* coroutine is an element of the list and never raised out of gather.
GatherRaises(ts) == FALSE

\* Phase 2 and the start of phase 3, inside try/finally: the observer call,
\* the search page and collect_tender_links(), progress.total, the observer
\* call, the zero-link return, then the semaphore and the coroutines.
Collect ==
    /\ runPc = "collecting"
    /\ \/ \* new_page(), collect_tender_links() or the first observer call raises
          /\ progress' = [progress EXCEPT !.phase = "Collecting tender links"]
          /\ runPc' = "closing_browser"
          /\ afterClose' = "raise"
          /\ raisedBy' = "collect"
          /\ UNCHANGED <<semaphore, tasks>>
       \/ \E n \in 0..MaxLinks, obsOk \in BOOLEAN, obsOk2 \in BOOLEAN :
            LET p1 == [progress EXCEPT !.phase = "Collecting tender links",
                                       !.total = n]
            IN  IF ~obsOk
                THEN /\ progress' = p1
                     /\ runPc' = "closing_browser"
                     /\ afterClose' = "raise"
                     /\ raisedBy' = "observer"
                     /\ UNCHANGED <<semaphore, tasks>>
                ELSE IF n = 0
                THEN /\ progress' = p1
                     /\ runPc' = "closing_browser"
                     /\ afterClose' = "return_empty"
                     /\ raisedBy' = ""
                     /\ UNCHANGED <<semaphore, tasks>>
                ELSE IF ~obsOk2
                THEN /\ progress' = [p1 EXCEPT !.phase = "Downloading"]
                     /\ runPc' = "closing_browser"
                     /\ afterClose' = "raise"
                     /\ raisedBy' = "observer"
                     /\ UNCHANGED <<semaphore, tasks>>
                ELSE /\ progress' = [p1 EXCEPT !.phase = "Downloading"]
                     /\ runPc' = "gathering"
                     /\ semaphore' = MaxConcurrent
                     /\ tasks' = [i \in 1..n |-> NewTask]
                     /\ UNCHANGED <<afterClose, raisedBy>>
    /\ UNCHANGED <<stop_requested, browserOpen, results, stopAt, runEntry>>

\* gather returns once every coroutine has ended; the results are filtered
\* and the finally clause starts closing the browser.
GatherDone ==
    /\ runPc = "gathering"
    /\ \A t \in TaskIds : Resolved(t)
    /\ runPc' = "closing_browser"
    /\ IF GatherRaises(tasks)
       THEN /\ afterClose' = "raise"
            /\ raisedBy' = "task"
            /\ UNCHANGED results
       ELSE /\ afterClose' = "finalize"
            /\ results' = Filtered(tasks, 1)
            /\ UNCHANGED raisedBy
    /\ UNCHANGED <<stop_requested, progress, browserOpen, semaphore, tasks,
                   stopAt, runEntry>>

\* finally: `await browser.close()` and the exit of `async with
\* async_playwright()`; then what was pending: the exception, `return []`, or
\* the finalisation (elapsed, phase = "Completed", is_running = False, the
\* summary log, the observer call, `return results`).
CloseBrowser ==
    /\ runPc = "closing_browser"
    /\ \/ \* browser.close() or the playwright exit raises
          /\ runPc' = "raised"
          /\ raisedBy' = "close"
          /\ browserOpen' = FALSE
          /\ UNCHANGED <<progress, results>>
       \/ /\ afterClose = "raise"
          /\ runPc' = "raised"
          /\ browserOpen' = FALSE
          /\ UNCHANGED <<progress, results, raisedBy>>
       \/ /\ afterClose = "return_empty"
          /\ runPc' = "returned"
          /\ browserOpen' = FALSE
          /\ results' = <<>>
          /\ UNCHANGED <<progress, raisedBy>>
       \/ /\ afterClose = "finalize"
          /\ browserOpen' = FALSE
          /\ progress' = [progress EXCEPT !.phase = "Completed",
                                          !.is_running = FALSE]
          /\ \E obsOk \in BOOLEAN :
               /\ runPc' = IF obsOk THEN "returned" ELSE "raised"
               /\ raisedBy' = IF obsOk THEN raisedBy ELSE "observer"
          /\ UNCHANGED results
    /\ afterClose' = "none"
    /\ UNCHANGED <<stop_requested, semaphore, tasks, stopAt, runEntry>>

\* ------------------------------------------------------------ the scraper
\* TenderScraper.__init__: a fresh progress, no stop request; no run yet.
ScraperInit ==
    /\ runPc = "idle"
    /\ afterClose = "none"
    /\ stop_requested = FALSE
    /\ progress = ScraperProgressDefault
    /\ browserOpen = FALSE
    /\ semaphore = 0
    /\ tasks = <<>>
    /\ results = <<>>
    /\ raisedBy = ""
    /\ stopAt = NoStop
    /\ runEntry = NoEntry

\* No archive is being processed.
ZipIdle ==
    /\ zipPc = "off"
    /\ zip_files = <<>>
    /\ scanIdx = 0
    /\ classifications = <<>>
    /\ avis_info = 0
    /\ extractCalls = <<>>
    /\ zipReturn = [returned |-> FALSE]

\* No function is called directly.
CallsIdle ==
    /\ callFn = "none"
    /\ callArgs = <<>>
    /\ callOut = NoCall
    /\ callSeen = {}

\* No request has reached the scraper endpoints.
ApiIdle ==
    /\ scraper_instance = 0
    /\ jobs = <<>>
    /\ response = NoResponse
    /\ tenders = {}

Init == ScraperInit /\ ZipIdle /\ CallsIdle /\ ApiIdle

Next ==
    \/ RunStart /\ UNCHANGED <<zipVars, callVars, apiVars>>
    \/ Launch /\ UNCHANGED <<zipVars, callVars, apiVars>>
    \/ Collect /\ UNCHANGED <<zipVars, callVars, apiVars>>
    \/ \E t \in TaskIds : EnterGate(t) /\ UNCHANGED <<zipVars, callVars, apiVars>>
    \/ \E t \in TaskIds : NewPageDone(t) /\ UNCHANGED <<zipVars, callVars, apiVars>>
    \/ \E t \in TaskIds : ProtocolDone(t) /\ UNCHANGED <<zipVars, callVars, apiVars>>
    \/ \E t \in TaskIds : ClosePageDone(t) /\ UNCHANGED <<zipVars, callVars, apiVars>>
    \/ GatherDone /\ UNCHANGED <<zipVars, callVars, apiVars>>
    \/ CloseBrowser /\ UNCHANGED <<zipVars, callVars, apiVars>>
    \/ Stop /\ UNCHANGED <<zipVars, callVars, apiVars>>

\* The scraper: one TenderScraper, its runs, its coroutines and stop().
Spec == Init /\ [][Next]_vars

\* ======================================================= extractor.py
\* Strings are modelled as sequences of atoms: an atom is a word (a run of
\* letters that holds no other atom of the vocabulary) or one separator
\* character.  Matching, lower-casing, stripping and length are computed on
\* the atoms as the code computes them on the characters.

\* DocumentType, in the order of the classification loops.
DocTypeOrder == <<"AVIS", "RC", "CPS", "ANNEXE">>

\* str.lower() on one atom.
LowerAtom(a) ==
    CASE a = "AVIS" -> "avis"
      [] a = "Avis" -> "avis"
      [] a = "CPS" -> "cps"
      [] a = "PDF" -> "pdf"
      [] a = "Avis de consultation" -> "avis de consultation"
      [] OTHER -> a

Lower(s) == [i \in DOMAIN s |-> LowerAtom(s[i])]

\* Word atoms that occur in the model's filenames (already lower-cased).
FilenameWords ==
    {"avis", "rc", "rcdp", "rcdg", "cps", "ccaf", "cctp", "annexe", "fr", "ar",
     "doc", "scan", "note", "lettre", "macosx", "combined",
     "pdf", "docx", "xlsx", "xls", "txt", "xyz"}

\* \w: a letter, a digit or the underscore.
WordChar(a) == a \in FilenameWords \/ a = "_"

\* [\s_-]
IsSep(a) == a \in {" ", "_", "-"}

LastIndexOf(s, a) ==
    IF \E i \in DOMAIN s : s[i] = a
    THEN CHOOSE i \in DOMAIN s : s[i] = a /\ \A j \in DOMAIN s : s[j] = a => j <= i
    ELSE 0

\* filename.split('/')[-1]
AfterLastSlash(f) == SubSeq(f, LastIndexOf(f, "/") + 1, Len(f))

\* filename.lower().split('.')[-1] if '.' in filename else ''
\* ("other": the text after the last dot is not one atom).
Extension(f) ==
    LET dot == LastIndexOf(f, ".")
        tail == SubSeq(Lower(f), dot + 1, Len(f))
    IN  IF dot = 0 \/ Len(tail) = 0 THEN ""
        ELSE IF Len(tail) = 1 THEN tail[1]
        ELSE "other"

\* \bw\b occurs in b: the word atom w with no word character on either side.
HasWord(b, w) ==
    \E i \in DOMAIN b :
        /\ b[i] = w
        /\ (i = 1 \/ ~WordChar(b[i - 1]))
        /\ (i = Len(b) \/ ~WordChar(b[i + 1]))

\* FILENAME_PATTERNS[AVIS]: \bavis\b, \bavis[\s_-], [\s_-]avis\b,
\* avis[\s_-]*(ar|fr).
MatchesAvisPattern(b) ==
    \/ HasWord(b, "avis")
    \/ \E i \in DOMAIN b :
          /\ b[i] = "avis"
          /\ (i = 1 \/ ~WordChar(b[i - 1]))
          /\ i < Len(b) /\ IsSep(b[i + 1])
    \/ \E i \in DOMAIN b :
          /\ b[i] = "avis"
          /\ i > 1 /\ IsSep(b[i - 1])
          /\ (i = Len(b) \/ ~WordChar(b[i + 1]))
    \/ \E i \in DOMAIN b, j \in DOMAIN b :
          /\ i < j
          /\ b[i] = "avis"
          /\ \A k \in (i + 1)..(j - 1) : IsSep(b[k])
          /\ b[j] \in {"ar", "fr"}

\* FILENAME_PATTERNS of the other types.
MatchesFilenamePattern(b, docType) ==
    CASE docType = "AVIS" -> MatchesAvisPattern(b)
      [] docType = "RC" -> \E w \in {"rc", "rcdp", "rcdg"} : HasWord(b, w)
      [] docType = "CPS" -> \E w \in {"cps", "ccaf", "cctp"} : HasWord(b, w)
      [] docType = "ANNEXE" -> HasWord(b, "annexe")
      [] OTHER -> FALSE

\* re.search(r'\b(rc|cps|ccaf|rcdp|rcdg)\b', base_filename)
HasRcCpsMarker(b) ==
    \E w \in {"rc", "cps", "ccaf", "rcdp", "rcdg"} : HasWord(b, w)

\* CLASSIFICATION_KEYWORDS.
ClassificationKeywords(docType) ==
    CASE docType = "AVIS" ->
            {"avis de consultation", "avis d'appel d'offres", "avis d'appel",
             "avis appel offres", "avis ao", "avis"}
      [] docType = "RC" ->
            {"règlement de consultation", "reglement de consultation",
             "règlement de la consultation", "reglement de la consultation"}
      [] docType = "CPS" ->
            {"cahier des prescriptions spéciales",
             "cahier des prescriptions speciales", "cahier des clauses"}
      [] docType = "ANNEXE" -> {"annexe", "additif", "avenant"}
      [] OTHER -> {}

\* The keywords that are substrings of one (lower-cased) text atom.
KeywordsOfAtom(a) ==
    CASE a = "avis de consultation" -> {"avis de consultation", "avis"}
      [] a = "avis" -> {"avis"}
      [] a = "reglement de consultation" -> {"reglement de consultation"}
      [] a = "cahier des clauses" -> {"cahier des clauses"}
      [] a = "annexe" -> {"annexe"}
      [] OTHER -> {}

\* `keyword in text_lower`
KeywordIn(keyword, textLower) ==
    \E i \in DOMAIN textLower : keyword \in KeywordsOfAtom(textLower[i])

\* Number of characters of one text atom.
AtomLen(a) ==
    CASE a \in {" ", "\n"} -> 1
      [] a \in {"avis", "Avis", "AVIS"} -> 4
      [] a \in {"avis de consultation", "Avis de consultation"} -> 20
      [] a = "reglement de consultation" -> 25
      [] a = "cahier des clauses" -> 18
      [] a = "annexe" -> 6
      [] a = "lettre" -> 6
      [] a = "vingt caracteres ici" -> 20
      [] a = "[OCR REQUIRED]" -> 14
      [] a = "texte de 99 caracteres" -> 99
      [] a = "texte de cent caracteres" -> 100
      [] OTHER -> 1

RECURSIVE TextLen(_)
TextLen(s) == IF s = <<>> THEN 0 ELSE AtomLen(Head(s)) + TextLen(Tail(s))

IsSpace(a) == a \in {" ", "\n"}

\* str.strip()
RECURSIVE StripLeft(_)
StripLeft(s) ==
    IF s # <<>> /\ IsSpace(Head(s)) THEN StripLeft(Tail(s)) ELSE s

RECURSIVE StripRight(_)
StripRight(s) ==
    IF s # <<>> /\ IsSpace(s[Len(s)])
    THEN StripRight(SubSeq(s, 1, Len(s) - 1))
    ELSE s

Strip(s) == StripRight(StripLeft(s))

\* PRIORITY 1: the first type, in loop order, one of whose filename patterns
\* matches; an AVIS match is passed over (`continue`) when the name holds an
\* RC/CPS marker.  "UNKNOWN": no pattern decided.
RECURSIVE FirstFilenameType(_, _)
FirstFilenameType(b, i) ==
    IF i > Len(DocTypeOrder) THEN "UNKNOWN"
    ELSE LET docType == DocTypeOrder[i]
         IN  IF /\ MatchesFilenamePattern(b, docType)
                /\ ~(docType = "AVIS" /\ HasRcCpsMarker(b))
             THEN docType
             ELSE FirstFilenameType(b, i + 1)

\* The keyword loop run from the last type to the first: ANNEXE, CPS, RC,
\* AVIS.
RECURSIVE FirstKeywordTypeReversed(_, _)
FirstKeywordTypeReversed(textLower, i) ==
    IF i > Len(DocTypeOrder) THEN "UNKNOWN"
    ELSE LET docType == DocTypeOrder[Len(DocTypeOrder) + 1 - i]
         IN  IF \E k \in ClassificationKeywords(docType) : KeywordIn(k, textLower)
             THEN docType
             ELSE FirstKeywordTypeReversed(textLower, i + 1)

\* PRIORITY 2: the first type, in loop order, one of whose keywords is in the
\* lower-cased text.
RECURSIVE FirstKeywordType(_, _)
FirstKeywordType(textLower, i) ==
    IF i > Len(DocTypeOrder) THEN "UNKNOWN"
    ELSE LET docType == DocTypeOrder[i]
         IN  IF \E k \in ClassificationKeywords(docType) : KeywordIn(k, textLower)
             THEN docType
             ELSE FirstKeywordType(textLower, i + 1)

\* `len(text.strip()) > 20`: the least text the AI fallback is asked about.
AiMinChars == 20

\* The guard of PRIORITY 3 without the length test.
AiConsultedAnyLength(text, use_ai) == use_ai /\ text # <<>>

\* `use_ai and text and len(text.strip()) > 20`: classify_document_with_ai is
\* called (once neither of the two loops has returned).
AiConsulted(text, use_ai) ==
    use_ai /\ text # <<>> /\ TextLen(Strip(text)) > AiMinChars

\* What the remote model can reply: one of the four names, "UNKNOWN", some
\* other text ("malformed"), or the request fails ("error").
AiReplies == {"AVIS", "RC", "CPS", "ANNEXE", "UNKNOWN", "malformed", "error"}

\* classify_document_with_ai(text, filename, is_scanned): UNKNOWN when no API
\* key is configured; otherwise the reply mapped by type_map, UNKNOWN for any
\* other reply and for any exception.
ClassifyDocumentWithAi(configured, reply) ==
    IF ~configured THEN "UNKNOWN"
    ELSE IF reply \in {"AVIS", "RC", "CPS", "ANNEXE"} THEN reply
    ELSE "UNKNOWN"

\* classify_document with the keyword rule placed before the filename rule.
ClassifyDocumentContentFirst(text, filename, use_ai, is_scanned, ai) ==
    LET text_lower == Lower(text)
        base_filename == AfterLastSlash(Lower(filename))
        byName == FirstFilenameType(base_filename, 1)
        byText == FirstKeywordType(text_lower, 1)
    IN  IF byText # "UNKNOWN" THEN byText
        ELSE IF byName # "UNKNOWN" THEN byName
        ELSE IF AiConsulted(text, use_ai) THEN ai
        ELSE "UNKNOWN"

\* classify_document(text, filename, use_ai, is_scanned).  ai is the answer
\* classify_document_with_ai would give ("UNKNOWN" also when no API key is
\* configured, when the reply is not one of the four names, or on an error).
ClassifyDocument(text, filename, use_ai, is_scanned, ai) ==
    LET text_lower == Lower(text)
        base_filename == AfterLastSlash(Lower(filename))
        byName == FirstFilenameType(base_filename, 1)
        byText == FirstKeywordType(text_lower, 1)
    IN  IF byName # "UNKNOWN" THEN byName
        ELSE IF byText # "UNKNOWN" THEN byText
        ELSE IF AiConsulted(text, use_ai) THEN ai
        ELSE "UNKNOWN"

\* ---------------------------------------------------- first-page scan
\* `len(first_page_text.strip()) < 100`
ScannedThreshold == 100

\* _is_pdf_scanned measuring the text without strip().
IsPdfScannedNoStrip(entry) ==
    IF entry.corrupt THEN <<TRUE, <<>>>>
    ELSE <<TextLen(entry.text) < ScannedThreshold, entry.text>>

\* _is_pdf_scanned: <<is_scanned, first_page_text>>.  corrupt: pypdf raises
\* (or the file has no page); both give (True, "").
IsPdfScanned(entry) ==
    IF entry.corrupt THEN <<TRUE, <<>>>>
    ELSE <<TextLen(Strip(entry.text)) < ScannedThreshold, entry.text>>

\* What _ocr_first_page_pdf can return: the recognised text, "" (nothing
\* recognised, or an error) or "[OCR REQUIRED]" (paddleocr is not installed).
OcrTexts ==
    {<<>>, <<"[OCR REQUIRED]">>, <<"lettre">>,
     <<"Avis de consultation", " ", "texte de cent caracteres">>}

\* What classify_document_with_ai can return.
AiAnswers == {"AVIS", "RC", "CPS", "ANNEXE", "UNKNOWN"}

FailedFirstPage(filename, err) ==
    [filename |-> filename, first_page_text |-> <<>>,
     document_type |-> "UNKNOWN", is_scanned |-> FALSE,
     success |-> FALSE, error |-> err]

\* extract_first_page(filename, file_bytes) with use_ai_classification=True.
\* ocr and ai are the answers of the recognition engine and of the AI
\* classifier, should the code ask them.  (mime_type and file_size_bytes of
\* the result are not modelled.)
ExtractFirstPage(entry, ocr, ai) ==
    LET filename == entry.name
        base_name == AfterLastSlash(filename)
        ext == Extension(filename)
    IN  IF base_name # <<>> /\ base_name[1] \in {"~$", "."}
        THEN FailedFirstPage(filename, "Temporary or hidden file - skipped")
        ELSE IF ext \notin {"pdf", "docx", "doc", "xls", "xlsx", "txt"}
        THEN FailedFirstPage(filename, "Unsupported file type")
        ELSE
        LET scan == IF ext = "pdf" THEN IsPdfScanned(entry) ELSE <<FALSE, <<>>>>
            is_scanned == scan[1]
            first_page_text ==
                IF ext = "pdf"
                THEN IF is_scanned /\ scan[2] = <<>> THEN ocr ELSE scan[2]
                ELSE IF entry.corrupt THEN <<>> ELSE entry.text
        IN  [filename |-> filename,
             first_page_text |-> first_page_text,
             document_type |->
                 ClassifyDocument(first_page_text, filename, TRUE, is_scanned, ai),
             is_scanned |-> is_scanned,
             success |-> TRUE,
             error |-> ""]

\* `filename.startswith('.') or filename.startswith('__')`
IsHiddenName(filename) ==
    \/ Len(filename) >= 1 /\ filename[1] = "."
    \/ Len(filename) >= 2 /\ filename[1] = "_" /\ filename[2] = "_"

\* find_avis_document, changed to keep the last match instead of the first.
FindAvisDocumentLast(cls) ==
    IF \E i \in DOMAIN cls : cls[i].success /\ cls[i].document_type = "AVIS"
    THEN CHOOSE i \in DOMAIN cls :
            /\ cls[i].success /\ cls[i].document_type = "AVIS"
            /\ \A j \in DOMAIN cls :
                  (cls[j].success /\ cls[j].document_type = "AVIS") => j <= i
    ELSE 0

\* find_avis_document, changed to fall back to the first readable entry when
\* none is an Avis.
FindAvisDocumentOrFirst(cls) ==
    IF \E i \in DOMAIN cls : cls[i].success
    THEN CHOOSE i \in DOMAIN cls :
            /\ cls[i].success
            /\ \/ cls[i].document_type = "AVIS"
               \/ \A j \in DOMAIN cls : cls[j].document_type # "AVIS"
            /\ \A j \in 1..(i - 1) :
                  ~(/\ cls[j].success
                    /\ \/ cls[j].document_type = "AVIS"
                       \/ \A k \in DOMAIN cls : cls[k].document_type # "AVIS")
    ELSE 0

\* find_avis_document: the index of the first result with success and
\* document_type AVIS; 0 for None.
RECURSIVE FindFrom(_, _)
FindFrom(cls, i) ==
    IF i > Len(cls) THEN 0
    ELSE IF cls[i].success /\ cls[i].document_type = "AVIS" THEN i
    ELSE FindFrom(cls, i + 1)

FindAvisDocument(cls) == FindFrom(cls, 1)

\* extract_full_document(filename, file_bytes, is_scanned).  Its fourth
\* statement calls detect_mime_type, a name that extractor.py neither defines
\* nor imports: the call raises NameError, before the try block is entered,
\* for every filename.
ExtractFullDocument(filename, is_scanned) ==
    [raised |-> TRUE, exception |-> "NameError"]

\* ------------------------------------------------- process_tender_zip
\* The entries of the model's archives: name, the text a structural parse of
\* the first page yields, and whether the file is unreadable.
EntryPool ==
    {[name |-> <<"avis", ".", "pdf">>,
      text |-> <<" ", " ">>, corrupt |-> FALSE],
     [name |-> <<"lettre", ".", "pdf">>,
      text |-> <<"Avis de consultation", " ", "texte de cent caracteres">>,
      corrupt |-> FALSE],
     [name |-> <<"rc", ".", "pdf">>,
      text |-> <<"reglement de consultation">>, corrupt |-> TRUE],
     [name |-> <<"avis", "-", "cps", ".", "docx">>,
      text |-> <<"cahier des clauses">>, corrupt |-> FALSE],
     [name |-> <<"scan", ".", "pdf">>,
      text |-> <<>>, corrupt |-> FALSE],
     [name |-> <<"_", "_", "macosx", "/", "avis", ".", "pdf">>,
      text |-> <<"texte de cent caracteres">>, corrupt |-> FALSE],
     [name |-> <<"~$", "AVIS", ".", "docx">>,
      text |-> <<"avis">>, corrupt |-> FALSE],
     [name |-> <<"note", ".", "xyz">>,
      text |-> <<"avis">>, corrupt |-> FALSE],
     [name |-> <<"doc", ".", "txt">>,
      text |-> <<" ", "texte de cent caracteres", "\n">>, corrupt |-> FALSE]}

\* zip_files is a dict: the names are distinct.
Archives ==
    {a \in UNION {[1..n -> EntryPool] : n \in 0..MaxEntries} :
        \A i \in DOMAIN a, j \in DOMAIN a : a[i].name = a[j].name => i = j}

\* classify_all_documents: one iteration of the loop over zip_files.items().
ScanEntry ==
    /\ zipPc = "scanning"
    /\ scanIdx < Len(zip_files)
    /\ scanIdx' = scanIdx + 1
    /\ LET entry == zip_files[scanIdx + 1]
       IN  IF IsHiddenName(entry.name)
           THEN UNCHANGED classifications
           ELSE \E r \in {ExtractFirstPage(entry, ocr, ai) :
                              ocr \in OcrTexts, ai \in AiAnswers} :
                   classifications' = Append(classifications, r)
    /\ UNCHANGED <<zipPc, zip_files, avis_info, extractCalls, zipReturn>>

\* Step 2: find_avis_document; `return None, classifications` when there is
\* no Avis.
SelectAvis ==
    /\ zipPc = "scanning"
    /\ scanIdx = Len(zip_files)
    /\ avis_info' = FindAvisDocument(classifications)
    /\ IF avis_info' = 0
       THEN /\ zipPc' = "returned"
            /\ zipReturn' = [returned |-> TRUE,
                             avis_extraction |-> [present |-> FALSE],
                             classifications |-> classifications]
       ELSE /\ zipPc' = "extracting"
            /\ UNCHANGED zipReturn
    /\ UNCHANGED <<zip_files, scanIdx, classifications, extractCalls>>

\* Step 3: extract_avis_only hands the selected entry to
\* extract_full_document; its NameError leaves process_tender_zip, so the
\* loop that clears first_page_text and the return are not reached.
ExtractAvis ==
    /\ zipPc = "extracting"
    /\ LET info == classifications[avis_info]
           idx == CHOOSE i \in DOMAIN zip_files : zip_files[i].name = info.filename
           r == ExtractFullDocument(info.filename, info.is_scanned)
       IN  /\ extractCalls' = Append(extractCalls, idx)
           /\ r.raised
           /\ zipPc' = "raised"
    /\ UNCHANGED <<zip_files, scanIdx, classifications, avis_info, zipReturn>>

\* process_tender_zip is called with an archive's entries.
InitZip ==
    /\ ScraperInit
    /\ zipPc = "scanning"
    /\ zip_files \in Archives
    /\ scanIdx = 0
    /\ classifications = <<>>
    /\ avis_info = 0
    /\ extractCalls = <<>>
    /\ zipReturn = [returned |-> FALSE]
    /\ CallsIdle
    /\ ApiIdle

NextZip ==
    \/ ScanEntry /\ UNCHANGED <<scraperVars, callVars, apiVars>>
    \/ SelectAvis /\ UNCHANGED <<scraperVars, callVars, apiVars>>
    \/ ExtractAvis /\ UNCHANGED <<scraperVars, callVars, apiVars>>

\* One call of process_tender_zip on any archive of the pool.
SpecZip == InitZip /\ [][NextZip]_vars

\* ------------------------------------------------------------ get_files
\* DownloadedTender.get_files().  zip: present (zip_bytes is not empty),
\* readable (zipfile.ZipFile opens it) and the entries of namelist(), each
\* with its name and whether zf.read(name) raises (bad CRC, truncated data).
\* The result is the dict `files` as the sequence of its keys.
\* `for name in zf.namelist()`: directories are skipped; an exception of
\* zf.read leaves the loop for the except clause, which only logs, and the
\* entries read so far stay in `files`.
RECURSIVE ReadEntries(_, _, _)
ReadEntries(entries, i, files) ==
    IF i > Len(entries) THEN files
    ELSE LET name == entries[i].name
         IN  IF name[Len(name)] = "/" THEN ReadEntries(entries, i + 1, files)
             ELSE IF entries[i].bad THEN files
             ELSE ReadEntries(entries, i + 1, Append(files, name))

GetFiles(zip) ==
    IF ~zip.present THEN <<>>
    ELSE IF ~zip.readable THEN <<>>
    ELSE ReadEntries(zip.entries, 1, <<>>)

\* ---------------------------------------------------------- direct calls
\* The texts classify_document is called with.
ClassifyTexts ==
    {<<>>,
     <<"lettre">>,
     <<" ", "vingt caracteres ici", "\n">>,
     <<"Avis de consultation">>,
     <<"texte de cent caracteres">>,
     <<"reglement de consultation", " ", "Avis">>,
     <<"cahier des clauses", "\n", "reglement de consultation">>,
     <<"annexe", " ", "cahier des clauses">>,
     <<"annexe">>}

\* The filenames classify_document is called with.
ClassifyFilenames ==
    {<<"doc", ".", "txt">>,
     <<"avis", ".", "pdf">>,
     <<"rc", "/", "Avis", ".", "PDF">>,
     <<"avis", "_", "fr", ".", "pdf">>,
     <<"avis", "_", "cps", "_", "combined", ".", "pdf">>,
     <<"avis", "-", "cps", ".", "docx">>,
     <<"rc", ".", "pdf">>,
     <<"cps", "-", "annexe", ".", "pdf">>,
     <<"annexe", ".", "xlsx">>}

\* The first pages _is_pdf_scanned is called with.
ScanTexts ==
    {<<>>,
     <<" ", " ">>,
     <<"lettre">>,
     <<" ", "texte de 99 caracteres", "\n">>,
     <<"texte de cent caracteres">>,
     <<"texte de cent caracteres", "texte de cent caracteres",
       "texte de cent caracteres", "texte de cent caracteres",
       "texte de cent caracteres">>}

\* The entries of the archives get_files is called on.
ZipEntryPool ==
    {[name |-> <<"avis", ".", "pdf">>, bad |-> FALSE],
     [name |-> <<"avis", ".", "pdf">>, bad |-> TRUE],
     [name |-> <<"rc", ".", "pdf">>, bad |-> FALSE],
     [name |-> <<"rc", ".", "pdf">>, bad |-> TRUE],
     [name |-> <<"doc", "/">>, bad |-> FALSE]}

ZipArchives ==
    {[present |-> p, readable |-> r, entries |-> e] :
        p \in BOOLEAN, r \in BOOLEAN,
        e \in {a \in UNION {[1..n -> ZipEntryPool] : n \in 0..MaxEntries} :
                 \A i \in DOMAIN a, j \in DOMAIN a :
                     a[i].name = a[j].name => i = j}}

\* One call classify_document(text, filename, use_ai, is_scanned), with or
\* without an API key configured and for any reply of the remote model.
\* consulted: the remote model was asked.
ClassifyCall ==
    /\ callFn = "classify_document"
    /\ \E use_ai \in BOOLEAN, is_scanned \in BOOLEAN,
          configured \in BOOLEAN, reply \in AiReplies :
         LET ai == ClassifyDocumentWithAi(configured, reply)
             base_filename == AfterLastSlash(Lower(callArgs.filename))
             r == ClassifyDocument(callArgs.text, callArgs.filename,
                                   use_ai, is_scanned, ai)
         IN  /\ callOut' = [called |-> TRUE, use_ai |-> use_ai,
                            is_scanned |-> is_scanned,
                            configured |-> configured, reply |-> reply,
                            ai |-> ai,
                            consulted |->
                                /\ FirstFilenameType(base_filename, 1) = "UNKNOWN"
                                /\ FirstKeywordType(Lower(callArgs.text), 1) = "UNKNOWN"
                                /\ AiConsulted(callArgs.text, use_ai)
                                /\ configured,
                            result |-> r]
             /\ callSeen' = callSeen \cup {r}
    /\ UNCHANGED <<callFn, callArgs>>

\* One call _is_pdf_scanned(file_bytes).
IsPdfScannedCall ==
    /\ callFn = "_is_pdf_scanned"
    /\ LET r == IsPdfScanned(callArgs)
       IN  /\ callOut' = [called |-> TRUE, is_scanned |-> r[1],
                          first_page_text |-> r[2]]
           /\ callSeen' = callSeen \cup {r}
    /\ UNCHANGED <<callFn, callArgs>>

\* One call get_files() on a DownloadedTender.
GetFilesCall ==
    /\ callFn = "get_files"
    /\ LET r == GetFiles(callArgs)
       IN  /\ callOut' = [called |-> TRUE, files |-> r]
           /\ callSeen' = callSeen \cup {r}
    /\ UNCHANGED <<callFn, callArgs>>

\* The filenames extract_full_document is called with.
ExtractFilenames ==
    {<<"avis", ".", "pdf">>, <<"avis", "-", "cps", ".", "docx">>,
     <<"doc", ".", "txt">>, <<"note", ".", "xyz">>}

\* One call extract_full_document(filename, file_bytes, is_scanned).
ExtractFullDocumentCall ==
    /\ callFn = "extract_full_document"
    /\ LET r == ExtractFullDocument(callArgs.filename, callArgs.is_scanned)
       IN  /\ callOut' = [called |-> TRUE] @@ r
           /\ callSeen' = callSeen \cup {r}
    /\ UNCHANGED <<callFn, callArgs>>

InitCalls ==
    /\ ScraperInit
    /\ ZipIdle
    /\ \/ /\ callFn = "classify_document"
          /\ callArgs \in [text : ClassifyTexts, filename : ClassifyFilenames]
       \/ /\ callFn = "_is_pdf_scanned"
          /\ callArgs \in [text : ScanTexts, corrupt : BOOLEAN]
       \/ /\ callFn = "get_files"
          /\ callArgs \in ZipArchives
       \/ /\ callFn = "extract_full_document"
          /\ callArgs \in [filename : ExtractFilenames, text : ScanTexts,
                            corrupt : BOOLEAN, is_scanned : BOOLEAN]
    /\ callOut = NoCall
    /\ callSeen = {}
    /\ ApiIdle

NextCalls ==
    \/ ClassifyCall /\ UNCHANGED <<scraperVars, zipVars, apiVars>>
    \/ IsPdfScannedCall /\ UNCHANGED <<scraperVars, zipVars, apiVars>>
    \/ GetFilesCall /\ UNCHANGED <<scraperVars, zipVars, apiVars>>
    \/ ExtractFullDocumentCall /\ UNCHANGED <<scraperVars, zipVars, apiVars>>

\* Calls of one of the pure functions on one input, repeated.
SpecCalls == InitCalls /\ [][NextCalls]_vars

\* ======================================================== api/routes.py
\* The entry of the pool with the given name.
PoolEntry(name) == CHOOSE e \in EntryPool : e.name = name

\* The archives a run started by the API retrieves: one with two entries that
\* classify as Avis (the first by its text, the second by its name), one
\* whose only entry is skipped as hidden.
ApiArchives ==
    {<<PoolEntry(<<"lettre", ".", "pdf">>), PoolEntry(<<"avis", ".", "pdf">>)>>,
     <<PoolEntry(<<"_", "_", "macosx", "/", "avis", ".", "pdf">>)>>}

\* A ScraperJob row as run_scraper creates it, with its background task not
\* yet started.  pc: queued (add_task done, task not started), running
\* (inside `await _scraper_instance.run()`), done.  is_running,
\* stop_requested, downloaded and failed are those of the TenderScraper the
\* task creates; retrieved is the archives of its successful retrievals.
NewJob ==
    [pc |-> "queued", status |-> "RUNNING", is_running |-> FALSE,
     stop_requested |-> FALSE, downloaded |-> 0, failed |-> 0,
     retrieved |-> <<>>]

\* `_scraper_instance and _scraper_instance.progress.is_running`
InstanceRunning ==
    scraper_instance # 0 /\ jobs[scraper_instance].is_running

\* extract_all_from_zip(files): extract_full_document is called on every
\* entry that is not hidden, in order; its exception leaves the function.
RECURSIVE ExtractAllFromZip(_, _, _)
ExtractAllFromZip(files, i, acc) ==
    IF i > Len(files) THEN [raised |-> FALSE, results |-> acc]
    ELSE IF IsHiddenName(files[i].name)
    THEN ExtractAllFromZip(files, i + 1, acc)
    ELSE LET is_scanned ==
                 IF Extension(files[i].name) = "pdf"
                 THEN IsPdfScanned(files[i]).is_scanned ELSE FALSE
             r == ExtractFullDocument(files[i].name, is_scanned)
         IN  IF r.raised THEN [raised |-> TRUE, results |-> acc]
             ELSE ExtractAllFromZip(files, i + 1, Append(acc, r))

\* `for ext in extractions: ... if ext.document_type.value == "AVIS":
\* avis_text = ext.text`: every Avis overwrites avis_text.
RECURSIVE AvisText(_, _, _)
AvisText(extractions, i, avis_text) ==
    IF i > Len(extractions) THEN avis_text
    ELSE AvisText(extractions, i + 1,
                  IF extractions[i].document_type = "AVIS"
                  THEN [found |-> TRUE, text |-> extractions[i].text]
                  ELSE avis_text)

\* The loop `for result in results` of _run_scraper_task for job j, from the
\* i-th successful result (downloads[i]) on: the Tender row is committed as PENDING, the
\* archive is extracted, the Avis text (if any, and not empty) is handed to
\* ai_service.extract_avis_metadata, whose answer (aiOk) decides LISTED or
\* ERROR.  An exception of the extraction leaves the loop.
RECURSIVE ProcessResults(_, _, _, _, _)
ProcessResults(j, downloads, i, aiOk, acc) ==
    IF i > Len(downloads) THEN [raised |-> FALSE, tenders |-> acc]
    ELSE LET row == [job |-> j, index |-> i, files |-> downloads[i],
                     status |-> "PENDING", handed |-> [found |-> FALSE]]
             ex == ExtractAllFromZip(downloads[i], 1, <<>>)
             avis_text == AvisText(ex.results, 1, [found |-> FALSE])
         IN  IF ex.raised THEN [raised |-> TRUE, tenders |-> acc \cup {row}]
             ELSE IF avis_text.found /\ avis_text.text # <<>>
             THEN ProcessResults(j, downloads, i + 1, aiOk,
                      acc \cup {[row EXCEPT !.handed = avis_text,
                                            !.status = IF aiOk THEN "LISTED"
                                                       ELSE "ERROR"]})
             ELSE ProcessResults(j, downloads, i + 1, aiOk,
                      acc \cup {[row EXCEPT !.status = "ERROR"]})

\* POST /api/scraper/run: 400 when the instance exists and is running;
\* otherwise the job row is created and the background task is queued.  The
\* handler does not touch _scraper_instance.
RunRequest ==
    IF InstanceRunning
    THEN /\ response' = [NoResponse EXCEPT !.endpoint = "run"]
         /\ UNCHANGED <<scraper_instance, jobs, tenders>>
    ELSE /\ Len(jobs) < MaxJobs
         /\ jobs' = Append(jobs, NewJob)
         /\ response' = [NoResponse EXCEPT !.endpoint = "run", !.ok = TRUE]
         /\ UNCHANGED <<scraper_instance, tenders>>

\* _run_scraper_task starts, once the response of its request has been sent:
\* `_scraper_instance = TenderScraper(...)` and run() up to its first await,
\* which clears the stop flag and sets progress to a fresh one with
\* is_running = True.
TaskStart(j) ==
    /\ jobs[j].pc = "queued"
    /\ scraper_instance' = j
    /\ jobs' = [jobs EXCEPT ![j] = [@ EXCEPT !.pc = "running",
                                             !.is_running = TRUE]]
    /\ UNCHANGED <<response, tenders>>

\* One retrieval of job j's run resolves after passing the stop check: its
\* archive is downloaded or it fails.
RunStep(j) ==
    /\ jobs[j].pc = "running"
    /\ ~jobs[j].stop_requested
    /\ jobs[j].downloaded + jobs[j].failed < MaxRetrievals
    /\ \/ \E a \in ApiArchives :
            jobs' = [jobs EXCEPT ![j] = [@ EXCEPT !.downloaded = @ + 1,
                                                  !.retrieved = Append(@, a)]]
       \/ jobs' = [jobs EXCEPT ![j] = [@ EXCEPT !.failed = @ + 1]]
    /\ UNCHANGED <<scraper_instance, response, tenders>>

\* run() of job j is over and the rest of _run_scraper_task follows without
\* an await: run() raised or returned its results; then the processing loop,
\* the finalisation (which reads _scraper_instance.progress and fails when
\* the global is None), the except clause (status FAILED) and
\* `finally: _scraper_instance = None`.  The task's TenderScraper is then
\* referenced by nothing: its fields go back to their defaults in the model.
TaskEnd(j) ==
    /\ jobs[j].pc = "running"
    /\ \E outcome \in {"raised", "returned"}, aiOk \in BOOLEAN :
         LET pr == IF outcome = "raised"
                   THEN [raised |-> TRUE, tenders |-> {}]
                   ELSE ProcessResults(j, jobs[j].retrieved, 1, aiOk, {})
             failedJob == pr.raised \/ scraper_instance = 0
         IN  /\ jobs' = [jobs EXCEPT ![j] =
                           [NewJob EXCEPT !.pc = "done",
                                          !.status = IF failedJob THEN "FAILED"
                                                     ELSE "COMPLETED"]]
             /\ tenders' = tenders \cup pr.tenders
    /\ scraper_instance' = 0
    /\ UNCHANGED response

\* GET /api/scraper/status
StatusRequest ==
    /\ response' =
          IF InstanceRunning
          THEN [endpoint |-> "status", ok |-> TRUE, is_running |-> TRUE,
                downloaded |-> jobs[scraper_instance].downloaded,
                failed |-> jobs[scraper_instance].failed]
          ELSE [NoResponse EXCEPT !.endpoint = "status", !.ok = TRUE]
    /\ UNCHANGED <<scraper_instance, jobs, tenders>>

\* POST /api/scraper/stop
StopRequest ==
    IF InstanceRunning
    THEN /\ jobs' = [jobs EXCEPT ![scraper_instance] =
                        [@ EXCEPT !.stop_requested = TRUE]]
         /\ response' = [NoResponse EXCEPT !.endpoint = "stop", !.ok = TRUE]
         /\ UNCHANGED <<scraper_instance, tenders>>
    ELSE /\ response' = [NoResponse EXCEPT !.endpoint = "stop"]
         /\ UNCHANGED <<scraper_instance, jobs, tenders>>

InitApi == ScraperInit /\ ZipIdle /\ CallsIdle /\ ApiIdle

NextApi ==
    \/ RunRequest /\ UNCHANGED <<scraperVars, zipVars, callVars>>
    \/ \E j \in DOMAIN jobs : TaskStart(j) /\ UNCHANGED <<scraperVars, zipVars, callVars>>
    \/ \E j \in DOMAIN jobs : RunStep(j) /\ UNCHANGED <<scraperVars, zipVars, callVars>>
    \/ \E j \in DOMAIN jobs : TaskEnd(j) /\ UNCHANGED <<scraperVars, zipVars, callVars>>
    \/ StatusRequest /\ UNCHANGED <<scraperVars, zipVars, callVars>>
    \/ StopRequest /\ UNCHANGED <<scraperVars, zipVars, callVars>>

\* The scraper endpoints called in any order, with the background tasks they
\* queue.
SpecApi == InitApi /\ [][NextApi]_vars

\* ================================================================ claims
InFlightSet == {t \in TaskIds : InFlight(t)}

\* The download phase of the current run is over: gather has returned.
GatherOver == TaskIds # {} /\ runPc # "gathering"

\* C1: at every moment of a run, the number of retrievals that have passed
\* the semaphore and are not yet resolved is at most SCRAPER_MAX_CONCURRENT.
C1_ConcurrencyBound == Cardinality(InFlightSet) <= MaxConcurrent

\* C1 witness: the gate is full and another retrieval is waiting at it.
C1_Witness ==
    /\ Cardinality(InFlightSet) = MaxConcurrent
    /\ \E t \in TaskIds : tasks[t].pc = "waiting"

\* C2: in every reachable state, downloaded + failed <= total.
C2_CountersWithinTotal ==
    progress.downloaded + progress.failed <= progress.total

\* C3: once the stop flag is set, a retrieval still waiting at the gate never
\* opens a page or starts the protocol (it can only stay waiting or end as
\* "Stopped by user"); a retrieval already past the stop check is left
\* untouched by stop() and never ends as "Stopped by user".
C3_StopOnlyBlocksNewStarts ==
    [][\A t \in TaskIds :
         /\ (stop_requested /\ tasks[t].pc = "waiting" /\ t \in DOMAIN tasks')
               => /\ tasks'[t].pc \in {"waiting", "done"}
                  /\ ~tasks'[t].attempted
                  /\ ~tasks'[t].page
         /\ (InFlight(t) /\ t \in DOMAIN tasks')
               => /\ tasks'[t].ret # "stopped"
                  /\ (~stop_requested /\ stop_requested') => tasks'[t] = tasks[t]
      ]_vars

\* C3 witness: the flag is set and a retrieval that had not started has
\* ended as "Stopped by user", while a retrieval that was past the stop check
\* is still in flight, its download done and its page being closed.
C3_Witness ==
    /\ stop_requested
    /\ \E u \in TaskIds : tasks[u].ret = "stopped"
    /\ \E t \in stopAt.started :
          tasks[t].pc = "closing" /\ tasks[t].pending = "success"

\* C4: when stop() was called during the download phase after k retrievals
\* had started, then at the end of run() exactly those k were carried out (each
\* ended as a success or a failure), and is_running is false.
C4_StopAfterK ==
    (stopAt.called /\ stopAt.started # {} /\ runPc \in {"returned", "raised"}) =>
        /\ {t \in TaskIds : tasks[t].attempted} = stopAt.started
        /\ \A t \in stopAt.started : tasks[t].ret \in {"success", "failure", "raised"}
        /\ ~progress.is_running

\* C5: is_running is true while run() executes and false once run() has
\* ended, whether it returned (with results or the empty list) or raised.
C5_IsRunningLifecycle ==
    /\ runPc \in {"launching", "collecting", "gathering", "closing_browser"}
          => progress.is_running
    /\ runPc \in {"returned", "raised"} => ~progress.is_running

\* C6: the list run() returns holds exactly one record per enumerated
\* locator, and the record of a retrieval that did not succeed has
\* success = false and an error detail.
C6_OneResultPerLocator ==
    runPc = "returned" =>
        /\ Len(results) = progress.total
        /\ \A t \in 1..progress.total :
             \E i \in DOMAIN results :
                /\ results[i].index = t
                /\ (t \in TaskIds /\ tasks[t].ret # "success")
                      => (~results[i].success /\ results[i].error # "")

C8_ExactlyOneUpdate ==
    \A t \in TaskIds :
        tasks[t].attempted =>
            /\ tasks[t].inc_d + tasks[t].inc_f <= 1
            /\ tasks[t].pc \in {"closing", "done"} =>
                  /\ tasks[t].inc_d + tasks[t].inc_f = 1
                  /\ tasks[t].notified = 1

\* The entries of the archive whose scan-phase result is AVIS.
AvisEntries ==
    {i \in DOMAIN zip_files :
        \E k \in DOMAIN classifications :
            /\ classifications[k].filename = zip_files[i].name
            /\ classifications[k].document_type = "AVIS"}

\* C9: at most one entry of an archive is handed to full extraction, and it
\* is the first entry, in archive order, that the scan classified AVIS.
C9_AtMostOneFirstAvis ==
    /\ Len(extractCalls) <= 1
    /\ Len(extractCalls) = 1 =>
          /\ extractCalls[1] \in AvisEntries
          /\ \A i \in AvisEntries : extractCalls[1] <= i

\* C9 witness: two entries were classified AVIS, the first of them is not the
\* first entry of the archive, and it is the one that was extracted.
C9_Witness ==
    /\ Len(extractCalls) = 1
    /\ Cardinality(AvisEntries) >= 2
    /\ extractCalls[1] > 1

\* C10: when the scan is over and no entry was classified AVIS,
\* process_tender_zip returns (None, classifications) and no entry has been
\* handed to full extraction.
C10_NoAvisNoExtraction ==
    (AvisEntries = {}) =>
        /\ extractCalls = <<>>
        /\ zipPc \in {"scanning", "returned"}
        /\ zipPc = "returned" =>
              /\ zipReturn.returned
              /\ ~zipReturn.avis_extraction.present

\* C10 witness: an archive whose entries were classified RC and CPS only has
\* been processed to the no-Avis return.
C10_Witness ==
    /\ zipPc = "returned"
    /\ AvisEntries = {}
    /\ \E k \in DOMAIN classifications : classifications[k].document_type = "RC"
    /\ \E k \in DOMAIN classifications : classifications[k].document_type = "CPS"

\* C11: whenever process_tender_zip has returned, with or without an Avis,
\* every FirstPageResult of the list it returned has an empty first_page_text.
C11_SnippetsCleared ==
    (zipPc = "returned" /\ zipReturn.returned) =>
        \A k \in DOMAIN zipReturn.classifications :
            zipReturn.classifications[k].first_page_text = <<>>

\* C12: calls of classify_document with the same text and filename return
\* the same type, whatever use_ai, is_scanned and the AI classifier's answer.
C12_ClassifyDeterministic ==
    callFn = "classify_document" => Cardinality(callSeen) <= 1

\* The bare filename of the classify_document call, lower-cased.
CallBase == AfterLastSlash(Lower(callArgs.filename))

\* The filename pattern of docType matches and the match is not rejected.
NameDecides(b, docType) ==
    /\ MatchesFilenamePattern(b, docType)
    /\ ~(docType = "AVIS" /\ HasRcCpsMarker(b))

ContainsMarker(b) ==
    \E i \in DOMAIN b : b[i] \in {"rc", "cps", "ccaf", "rcdp", "rcdg"}

\* C14: a filename that matches an AVIS pattern and holds an RC/CPS marker is
\* not classified AVIS by the filename rule (the text is empty, so that no
\* other rule can give AVIS).
C14_MarkerRejectsAvis ==
    (/\ callFn = "classify_document" /\ callOut.called
     /\ callArgs.text = <<>>
     /\ MatchesAvisPattern(CallBase)
     /\ ContainsMarker(CallBase)) => callOut.result # "AVIS"

\* C16: _is_pdf_scanned flags a PDF scanned exactly when it is unreadable (or
\* has no page) or its first page's text, stripped, is shorter than 100
\* characters: 2 blanks give true, 500 characters give false.
C16_ScannedThreshold ==
    (callFn = "_is_pdf_scanned" /\ callOut.called) =>
        /\ callOut.is_scanned =
              (callArgs.corrupt \/ TextLen(Strip(callArgs.text)) < 100)
        /\ callArgs.text = <<" ", " ">> => callOut.is_scanned
        /\ (~callArgs.corrupt /\ TextLen(callArgs.text) = 500)
              => ~callOut.is_scanned
        /\ callArgs.corrupt => callOut.first_page_text = <<>>

\* C16 witness: a readable first page of 101 characters, 99 of them left by
\* strip(), has been flagged scanned.
C16_Witness ==
    /\ callFn = "_is_pdf_scanned" /\ callOut.called
    /\ ~callArgs.corrupt
    /\ TextLen(callArgs.text) = 101
    /\ TextLen(Strip(callArgs.text)) = 99
    /\ callOut.is_scanned

\* The names of the archive's entries that are not directories.
FileNamesOf(entries) ==
    LET keep == {i \in DOMAIN entries :
                    entries[i].name[Len(entries[i].name)] # "/"}
    IN  {entries[i].name : i \in keep}

\* C17: get_files returns either every file of the archive or, for a corrupt
\* archive (unreadable, or with an entry that cannot be read), the empty
\* mapping; never a part of the archive's files.
C17_UnpackAllOrNothing ==
    (callFn = "get_files" /\ callOut.called) =>
        LET got == {callOut.files[i] : i \in DOMAIN callOut.files}
            all == FileNamesOf(callArgs.entries)
            corrupt == \/ ~callArgs.readable
                       \/ \E i \in DOMAIN callArgs.entries : callArgs.entries[i].bad
        IN  /\ got = {} \/ got = all
            /\ (callArgs.present /\ corrupt) => got = {}

ExtractedEntry(c) == zip_files[extractCalls[c]]

\* C15: the full extraction of a PDF flagged scanned ends, whatever the state
\* of the recognition engine, with a returned ExtractionResult (success,
\* method OCR, a sentinel text when the engine failed); no exception leaves
\* extract_full_document.
C15_ScannedExtractionReturns ==
    \A c \in DOMAIN extractCalls :
        (/\ Extension(ExtractedEntry(c).name) = "pdf"
         /\ classifications[avis_info].is_scanned) =>
            /\ zipPc # "raised"
            /\ zipPc = "returned" =>
                  /\ zipReturn.avis_extraction.present
                  /\ zipReturn.avis_extraction.success
                  /\ zipReturn.avis_extraction.extraction_method = "OCR"

\* C18: no exception leaves extract_first_page or extract_full_document: the
\* processing of an archive never ends by raising, and every scan result
\* that reports a failure carries an error detail.
C18_FailuresAreData ==
    /\ zipPc # "raised"
    /\ \A k \in DOMAIN classifications :
          ~classifications[k].success => classifications[k].error # ""

RECURSIVE SumOver(_, _)
SumOver(f, S) ==
    IF S = {} THEN 0
    ELSE LET t == CHOOSE x \in S : TRUE
         IN  f[t] + SumOver(f, S \ {t})

CallTextHasKeyword ==
    \E d \in {"AVIS", "RC", "CPS", "ANNEXE"} :
        \E k \in ClassificationKeywords(d) : KeywordIn(k, Lower(callArgs.text))

CallNameDecides ==
    \E d \in {"AVIS", "RC", "CPS", "ANNEXE"} : NameDecides(CallBase, d)

\* C21: the remote model is asked only when no filename pattern and no
\* keyword matched, the stripped text is longer than 20 characters, use_ai is
\* set and an API key is configured; otherwise its reply has no effect; and
\* a malformed reply or an error gives UNKNOWN (classify_document always
\* returns one of the five types).
C21_AiFallbackGuarded ==
    (callFn = "classify_document" /\ callOut.called) =>
        /\ callOut.result \in {"AVIS", "RC", "CPS", "ANNEXE", "UNKNOWN"}
        /\ callOut.consulted =>
              /\ ~CallNameDecides /\ ~CallTextHasKeyword
              /\ TextLen(Strip(callArgs.text)) > 20
              /\ callOut.use_ai /\ callOut.configured
        /\ (~CallNameDecides /\ ~CallTextHasKeyword) =>
              /\ (callOut.consulted /\ callOut.reply \in {"AVIS", "RC", "CPS", "ANNEXE"})
                    => callOut.result = callOut.reply
              /\ (~callOut.consulted \/ callOut.reply \in {"malformed", "error", "UNKNOWN"})
                    => callOut.result = "UNKNOWN"

\* C21 witness: the remote model was asked about a 100-character text under
\* a filename no pattern matches, its reply was malformed, and the call
\* returned UNKNOWN.
C21_Witness ==
    /\ callFn = "classify_document" /\ callOut.called
    /\ callOut.consulted
    /\ callOut.reply = "malformed"
    /\ callOut.result = "UNKNOWN"

\* The archive entry a scan result was made from.
EntryOf(k) ==
    CHOOSE e \in {zip_files[i] : i \in DOMAIN zip_files} :
        e.name = classifications[k].filename

\* C22: every scan result flagged scanned holds, as the text that was
\* classified, a text returned by the recognition of the first page, and not
\* the sparse text of the structural parse.
C22_ScannedMeansRecognized ==
    \A k \in DOMAIN classifications :
        (classifications[k].success /\ classifications[k].is_scanned) =>
            /\ classifications[k].first_page_text \in OcrTexts
            /\ (~EntryOf(k).corrupt /\ EntryOf(k).text # <<>>)
                  => classifications[k].first_page_text # EntryOf(k).text

\* C23: a readable PDF given to extract_full_document with is_scanned = false
\* whose text is near-empty (under 100 characters once stripped) yields an
\* ExtractionResult whose extraction_method is OCR.
C23_MethodFollowsExtraction ==
    (/\ callFn = "extract_full_document" /\ callOut.called
     /\ Extension(callArgs.filename) = "pdf"
     /\ ~callArgs.is_scanned /\ ~callArgs.corrupt
     /\ TextLen(Strip(callArgs.text)) < 100) =>
        /\ ~callOut.raised
        /\ callOut.extraction_method = "OCR"

\* C27: when process_tender_zip has selected an entry and is over, it has
\* returned an ExtractionResult for it whose document_type is AVIS.
C27_ExtractedTypeIsAvis ==
    (avis_info # 0 /\ zipPc \in {"returned", "raised"}) =>
        /\ zipPc = "returned"
        /\ zipReturn.avis_extraction.present
        /\ zipReturn.avis_extraction.document_type = "AVIS"

\* C28: when run() has returned, the number of returned records with
\* success = true is progress.downloaded and the number with success = false
\* is progress.failed.
C28_ResultsMatchCounters ==
    runPc = "returned" =>
        /\ Cardinality({i \in DOMAIN results : results[i].success})
              = progress.downloaded
        /\ Cardinality({i \in DOMAIN results : ~results[i].success})
              = progress.failed

\* C24: every step that enters run() leaves progress equal to a fresh
\* ScraperProgress with is_running = true (counters 0, no log entry) and the
\* stop flag cleared, whatever the earlier run or an earlier stop() left.
C24_RunStartsReset ==
    [][(runPc # "launching" /\ runPc' = "launching") =>
          /\ progress' = [ScraperProgressDefault EXCEPT !.is_running = TRUE]
          /\ progress'.downloaded = 0 /\ progress'.failed = 0
          /\ progress'.logs = 0
          /\ ~stop_requested']_vars

\* A run has just been entered on a scraper whose earlier run was stopped and
\* had counted and logged retrievals; the flag and the counters are reset.
C24_Witness ==
    /\ runPc = "launching"
    /\ runEntry.entered
    /\ runEntry.stop_requested
    /\ runEntry.downloaded > 0 /\ runEntry.failed > 0 /\ runEntry.logs > 0
    /\ ~stop_requested
    /\ progress = [ScraperProgressDefault EXCEPT !.is_running = TRUE]

Running(j) == jobs[j].pc = "running"

\* C25: at most one job is accepted and not finished at any time, that is,
\* no run request is accepted while an accepted run has not finished.
C25_OneRunAtATime ==
    Cardinality({j \in DOMAIN jobs : jobs[j].pc # "done"}) <= 1

\* C26: while the run of a job is in progress, a status request answers
\* is_running = true with that run's counters, a stop request sets that run's
\* stop flag, and no step makes _scraper_instance stop referring to it.
C26_RunInProgressIsVisible ==
    [][\A j \in DOMAIN jobs :
          Running(j) =>
            /\ StatusRequest =>
                  /\ response'.is_running
                  /\ response'.downloaded = jobs[j].downloaded
                  /\ response'.failed = jobs[j].failed
            /\ StopRequest => jobs'[j].stop_requested
            /\ (scraper_instance = j /\ Running(j)')
                  => scraper_instance' = j
      ]_vars

\* The index of the first entry of an archive that is not hidden and that
\* classify_document(text, filename) classifies as Avis (0: none).
RECURSIVE FirstNotice(_, _)
FirstNotice(files, i) ==
    IF i > Len(files) THEN 0
    ELSE IF /\ ~IsHiddenName(files[i].name)
            /\ ClassifyDocument(files[i].text, files[i].name,
                                FALSE, FALSE, "UNKNOWN") = "AVIS"
    THEN i
    ELSE FirstNotice(files, i + 1)

\* C30: for every archive a run started through the API retrieved and that
\* holds an entry classified Avis, the text handed to the metadata extraction
\* is the text of the first such entry.
C30_FirstNoticeHandedToMetadata ==
    \A t \in tenders :
        LET k == FirstNotice(t.files, 1)
        IN  k # 0 => t.handed = [found |-> TRUE, text |-> t.files[k].text]

====
